---- MODULE Spec2Model ----
(***************************************************************************)
(* mkmod: creation of a module file or directory and its registration in   *)
(* the super module (src/lib.rs).                                          *)
(*                                                                         *)
(* A file is the sequence of its bytes; a byte is a one-character string,  *)
(* with the tokens LF and CR standing for the bytes 0x0A and 0x0D.  A line *)
(* is what BufRead::lines() yields: the bytes up to a LF, without the LF   *)
(* and without one CR before it.                                           *)
(***************************************************************************)
EXTENDS Naturals, Integers, Sequences, FiniteSets, TLC

VARIABLES
    file,   \* registration: bytes of the super file
    log,    \* registration: one record per completed add_module_to call
    scan,   \* file_info: the locals of the line scan in progress
    ins,    \* insert_mod_at_line: the locals and files of the rewrite in progress
    fs,     \* mkmod::main: the filesystem, path -> entry
    run     \* mkmod::main: the arguments and result of the last run

vars == <<file, log, scan, ins, fs, run>>

-----------------------------------------------------------------------------
(* Bounds *)

MaxLines == 3       \* lines of an initial super file
MaxCalls == 2       \* successive add_module_to calls on one file

-----------------------------------------------------------------------------
(* Bytes and text *)

LF == "LF"
CR == "CR"

None == <<>>
Some(k) == <<k>>

\* char::is_whitespace, as used by str::trim and by the regex class \s
IsWhitespace(c) == c \in {" ", "\t", LF, CR}

RECURSIVE Concat(_)
Concat(ss) == IF ss = <<>> THEN <<>> ELSE Head(ss) \o Concat(Tail(ss))

\* index of the first non-whitespace byte of s at or after i (Len(s)+1 if none)
RECURSIVE SkipWs(_, _)
SkipWs(s, i) ==
    IF i > Len(s) THEN i
    ELSE IF IsWhitespace(s[i]) THEN SkipWs(s, i + 1) ELSE i

HasPrefixAt(s, i, p) ==
    /\ i + Len(p) - 1 <= Len(s)
    /\ \A k \in 1..Len(p) : s[i + k - 1] = p[k]

\* line.trim().is_empty()
IsBlank(line) == SkipWs(line, 1) > Len(line)

\* Regex ^\s*//
ReComment(line) == HasPrefixAt(line, SkipWs(line, 1), <<"/", "/">>)

\* Regex ^\s*use\s+
ReUse(line) ==
    LET j == SkipWs(line, 1) IN
    /\ HasPrefixAt(line, j, <<"u", "s", "e">>)
    /\ j + 3 <= Len(line)
    /\ IsWhitespace(line[j + 3])

\* Regex ^\s*(?:pub)?\s*mod
\* (ReMod without the optional pub)
ReModNoPub(line) == HasPrefixAt(line, SkipWs(line, 1), <<"m", "o", "d">>)
ReMod(line) ==
    LET j == SkipWs(line, 1) IN
    \/ HasPrefixAt(line, j, <<"m", "o", "d">>)
    \/ /\ HasPrefixAt(line, j, <<"p", "u", "b">>)
       /\ HasPrefixAt(line, SkipWs(line, j + 3), <<"m", "o", "d">>)

IsPreambleLine(line) == ReUse(line) \/ ReMod(line)

\* What lines() removes from a line that ended in LF: one CR before the LF
StripCR(l) ==
    IF Len(l) > 0 /\ l[Len(l)] = CR THEN SubSeq(l, 1, Len(l) - 1) ELSE l

\* Index of the first LF of bytes at or after i (Len(bytes) + 1 if none)
RECURSIVE NextLF(_, _)
NextLF(bytes, i) ==
    IF i > Len(bytes) \/ bytes[i] = LF THEN i ELSE NextLF(bytes, i + 1)

\* io::BufReader::new(file).lines(): the lines of bytes from position i on; a
\* line that ends in LF loses it and one CR before it, the rest of the file
\* after the last LF is a line as it is, and no bytes left is the end
RECURSIVE ReadLines(_, _)
ReadLines(bytes, i) ==
    IF i > Len(bytes) THEN <<>>
    ELSE LET j == NextLF(bytes, i) IN
         IF j > Len(bytes) THEN <<SubSeq(bytes, i, Len(bytes))>>
         ELSE <<StripCR(SubSeq(bytes, i, j - 1))>> \o ReadLines(bytes, j + 1)

Lines(bytes) == ReadLines(bytes, 1)

\* writeln!(tmp, "{}", line)
Writeln(line) == line \o <<LF>>

\* format!("pub mod {mod_name};") / format!("mod {mod_name};")
ModStr(mod_name, public) ==
    IF public
    THEN <<"p", "u", "b", " ", "m", "o", "d", " ">> \o mod_name \o <<";">>
    ELSE <<"m", "o", "d", " ">> \o mod_name \o <<";">>

-----------------------------------------------------------------------------
(* file_info: the line scan *)

ScanInit ==
    [ preamble_exists |-> FALSE, preamble_end |-> None,
      header_comment_exists |-> FALSE, header_comment_end |-> None,
      content_start |-> FALSE, body_start |-> FALSE,
      stopped |-> FALSE, underflow |-> FALSE ]

\* The end of the header phase: the first non-comment line after content start
\* (HeaderEnd without the test of header_comment_exists; HeaderEnd recording l_num)
HeaderEndUnguarded(s, l_num) ==
    [s EXCEPT !.header_comment_end = Some(l_num - 1),
              !.underflow = @ \/ l_num = 0,
              !.body_start = TRUE]
HeaderEndAtLine(s, l_num) ==
    [s EXCEPT !.header_comment_end = IF s.header_comment_exists THEN Some(l_num) ELSE @,
              !.body_start = TRUE]
HeaderEnd(s, l_num) ==
    [s EXCEPT !.header_comment_end =
                  IF s.header_comment_exists THEN Some(l_num - 1) ELSE @,
              !.underflow = @ \/ (s.header_comment_exists /\ l_num = 0),
              !.body_start = TRUE]

\* match (preamble_line, preamble_exists)
\* (PreambleStep without the break)
PreambleStepNoBreak(s, l_num, preamble_line) ==
    IF preamble_line /\ ~s.preamble_exists
    THEN [s EXCEPT !.preamble_exists = TRUE]
    ELSE IF ~preamble_line /\ s.preamble_exists
    THEN [s EXCEPT !.preamble_end = Some(l_num - 1),
                   !.underflow = @ \/ l_num = 0]
    ELSE s
PreambleStep(s, l_num, preamble_line) ==
    IF preamble_line /\ ~s.preamble_exists
    THEN [s EXCEPT !.preamble_exists = TRUE]
    ELSE IF ~preamble_line /\ s.preamble_exists
    THEN [s EXCEPT !.preamble_end = Some(l_num - 1),
                   !.underflow = @ \/ l_num = 0,
                   !.stopped = TRUE]
    ELSE s

\* One iteration of the loop over lines.enumerate()
ScanLine(s, l_num, line) ==
    IF ~s.content_start /\ IsBlank(line) THEN s
    ELSE
        LET s1 == [s EXCEPT !.content_start = TRUE] IN
        IF ~s1.body_start /\ ReComment(line)
        THEN [s1 EXCEPT !.header_comment_exists = TRUE]
        ELSE
            LET s2 == IF ~s1.body_start THEN HeaderEnd(s1, l_num) ELSE s1 IN
            PreambleStep(s2, l_num, IsPreambleLine(line))

RECURSIVE ScanFrom(_, _, _)
ScanFrom(s, lines, l_num) ==
    IF s.stopped \/ l_num >= Len(lines) THEN s
    ELSE ScanFrom(ScanLine(s, l_num, lines[l_num + 1]), lines, l_num + 1)

FileInfo(bytes) ==
    LET s == ScanFrom(ScanInit, Lines(bytes), 0) IN
    [ preamble_exists |-> s.preamble_exists, preamble_end |-> s.preamble_end,
      header_comment_exists |-> s.header_comment_exists,
      header_comment_end |-> s.header_comment_end ]

-----------------------------------------------------------------------------
(* add_module_to: the insertion point; insert_mod_at_line: the rewrite *)

\* (InsertPoint with the header comment tested before the preamble)
InsertPointHeaderFirst(info) ==
    IF info.header_comment_exists
    THEN IF info.header_comment_end = None THEN None
         ELSE Some(info.header_comment_end[1] + 1)
    ELSE IF info.preamble_exists
    THEN IF info.preamble_end = None THEN None
         ELSE Some(info.preamble_end[1] + 1)
    ELSE Some(0)
InsertPoint(info) ==
    IF info.preamble_exists
    THEN IF info.preamble_end = None THEN None
         ELSE Some(info.preamble_end[1] + 1)
    ELSE IF info.header_comment_exists
    THEN IF info.header_comment_end = None THEN None
         ELSE Some(info.header_comment_end[1] + 1)
    ELSE Some(0)

\* One iteration of the copy loop: what it writes to the scratch file
CopyLine(insert, l_num, line, mod_str) ==
    (IF insert = Some(l_num) THEN Writeln(mod_str) ELSE <<>>) \o Writeln(line)

RECURSIVE CopyFrom(_, _, _, _)
CopyFrom(lines, l_num, insert, mod_str) ==
    IF l_num >= Len(lines) THEN <<>>
    ELSE CopyLine(insert, l_num, lines[l_num + 1], mod_str)
            \o CopyFrom(lines, l_num + 1, insert, mod_str)

\* if insert == None || md.len() == 0
AppendTail(insert, md_len, mod_str) ==
    IF insert = None \/ md_len = 0 THEN Writeln(mod_str) ELSE <<>>

\* The content of the scratch file when it is renamed over the target
Rewrite(bytes, insert, mod_str) ==
    CopyFrom(Lines(bytes), 0, insert, mod_str)
        \o AppendTail(insert, Len(bytes), mod_str)

-----------------------------------------------------------------------------
(* Registration: successive add_module_to calls on one super file *)

Texts ==
    { <<>>,
      <<"/", "/", "h">>,
      <<"u", "s", "e", " ", "a", ";">>,
      <<"m", "o", "d", " ", "x", ";">>,
      <<"f", "n", " ", "f">> }

Terminators == { <<LF>>, <<CR, LF>>, <<CR>> }

\* The registrations tried: both names and both visibilities, so that two
\* successive calls cover equal and different names and all four pairs of
\* visibilities
Registrations ==
    { [mod_name |-> <<"a">>, public |-> TRUE], [mod_name |-> <<"b">>, public |-> FALSE] }

RECURSIVE SeqsUpTo(_, _)
SeqsUpTo(S, n) ==
    IF n = 0 THEN { <<>> }
    ELSE LET shorter == SeqsUpTo(S, n - 1) IN
         shorter \cup { Append(q, x) : q \in { r \in shorter : Len(r) = n - 1 }, x \in S }

\* The bytes of a file of the given lines, each ended by term, the last one
\* only when final_newline
FileOf(texts, term, final_newline) ==
    Concat([i \in 1..Len(texts) |->
               texts[i] \o (IF i < Len(texts) \/ final_newline THEN term ELSE <<>>)])

InitialFiles ==
    { FileOf(t, term, fin) : t \in SeqsUpTo(Texts, MaxLines),
                             term \in Terminators, fin \in BOOLEAN }


IdleScan == [pc |-> "idle"]
IdleIns == [pc |-> "idle"]
IdleFs == <<>>
IdleRun == [pc |-> "idle"]

Init ==
    /\ file \in InitialFiles
    /\ log = <<>>
    /\ scan = IdleScan
    /\ ins = IdleIns
    /\ fs = IdleFs
    /\ run = IdleRun

\* add_module_to(mod_name, path, public), every I/O step succeeding
AddModuleTo(mod_name, public) ==
    /\ Len(log) < MaxCalls
    /\ LET info == FileInfo(file)
           insert == InsertPoint(info)
           mod_str == ModStr(mod_name, public)
           post == Rewrite(file, insert, mod_str)
       IN /\ file' = post
          /\ log' = Append(log, [pre |-> file, info |-> info, insert |-> insert,
                                 mod_str |-> mod_str, post |-> post])
    /\ UNCHANGED <<scan, ins, fs, run>>

Next == \E r \in Registrations : AddModuleTo(r.mod_name, r.public)

Spec == Init /\ [][Next]_vars

-----------------------------------------------------------------------------
(* file_info, one loop iteration per step *)

InitScan ==
    /\ file = <<>>
    /\ log = <<>>
    /\ scan \in { [pc |-> "scan", lines |-> Lines(f), l_num |-> 0, s |-> ScanInit] :
                  f \in InitialFiles }
    /\ ins = IdleIns
    /\ fs = IdleFs
    /\ run = IdleRun

\* for (l_num, line) in lines.enumerate() { ... }
ScanStep ==
    /\ scan.pc = "scan"
    /\ ~scan.s.stopped
    /\ scan.l_num < Len(scan.lines)
    /\ scan' = [scan EXCEPT !.s = ScanLine(scan.s, scan.l_num, scan.lines[scan.l_num + 1]),
                            !.l_num = @ + 1]
    /\ UNCHANGED <<file, log, ins, fs, run>>

\* if let Err(err) = line { return Err(err.into()); }
ScanReadError ==
    /\ scan.pc = "scan"
    /\ ~scan.s.stopped
    /\ scan.l_num < Len(scan.lines)
    /\ scan' = [scan EXCEPT !.pc = "err"]
    /\ UNCHANGED <<file, log, ins, fs, run>>

\* Ok((preamble_exists, preamble_end, header_comment_exists, header_comment_end))
ScanReturn ==
    /\ scan.pc = "scan"
    /\ scan.s.stopped \/ scan.l_num >= Len(scan.lines)
    /\ scan' = [scan EXCEPT !.pc = "ok"]
    /\ UNCHANGED <<file, log, ins, fs, run>>

NextScan == ScanStep \/ ScanReadError \/ ScanReturn

SpecScan == InitScan /\ [][NextScan]_vars

-----------------------------------------------------------------------------
(* insert_mod_at_line, one I/O step at a time *)

TempDir == "temp_dir"       \* std::env::temp_dir(), where NamedTempFile::new() creates
SrcDir == "src"
Dirs == { TempDir, SrcDir }
Devices == { "dev0", "dev1" }

\* NamedTempFile::new()
NewTmp == [exists |-> TRUE, dir |-> TempDir, data |-> <<>>]

\* Drop of the NamedTempFile at the end of its scope: the scratch file is removed
\* (DropTmpLeaks: a scratch file that is not removed)
DropTmpLeaks(tmp) == tmp
DropTmp(tmp) == [tmp EXCEPT !.exists = FALSE]

\* Initial super files of the rewrite: LF-terminated
RewriteFiles ==
    { FileOf(t, <<LF>>, fin) : t \in SeqsUpTo(Texts, MaxLines), fin \in BOOLEAN }

InitInsert ==
    /\ file = <<>>
    /\ log = <<>>
    /\ scan = IdleScan
    /\ \E f \in RewriteFiles, public \in BOOLEAN, d \in Dirs, dev \in Devices :
          ins = [ pc |-> "create", target |-> f, file0 |-> f,
                  target_dir |-> d,
                  mount |-> [x \in Dirs |-> IF x = TempDir THEN "dev0" ELSE dev],
                  insert |-> InsertPoint(FileInfo(f)),
                  mod_str |-> ModStr(<<"a">>, public),
                  tmp |-> [exists |-> FALSE, dir |-> TempDir, data |-> <<>>],
                  lines |-> <<>>, l_num |-> 0, md_len |-> 0,
                  failed_at |-> "", result |-> "" ]
    /\ fs = IdleFs
    /\ run = IdleRun

\* let mut tmp = NamedTempFile::new()?;
InsCreate ==
    /\ ins.pc = "create"
    /\ ins' = [ins EXCEPT !.tmp = NewTmp, !.pc = "open"]
    /\ UNCHANGED <<file, log, scan, fs, run>>

InsCreateFails ==
    /\ ins.pc = "create"
    /\ ins' = [ins EXCEPT !.pc = "done", !.failed_at = "create", !.result = "Err"]
    /\ UNCHANGED <<file, log, scan, fs, run>>

\* let file = File::open(path)?;
InsOpen ==
    /\ ins.pc = "open"
    /\ ins' = [ins EXCEPT !.lines = Lines(ins.target), !.pc = "metadata"]
    /\ UNCHANGED <<file, log, scan, fs, run>>

\* let md = file.metadata()?;
InsMetadata ==
    /\ ins.pc = "metadata"
    /\ ins' = [ins EXCEPT !.md_len = Len(ins.target), !.pc = "copy"]
    /\ UNCHANGED <<file, log, scan, fs, run>>

\* One iteration of the copy loop, both writes succeeding
InsCopy ==
    /\ ins.pc = "copy"
    /\ ins.l_num < Len(ins.lines)
    /\ ins' = [ins EXCEPT
                 !.tmp.data = @ \o CopyLine(ins.insert, ins.l_num,
                                            ins.lines[ins.l_num + 1], ins.mod_str),
                 !.l_num = @ + 1]
    /\ UNCHANGED <<file, log, scan, fs, run>>

\* if insert == None || md.len() == 0 { writeln!(tmp, "{}", &mod_str)?; }
InsAppend ==
    /\ ins.pc = "copy"
    /\ ins.l_num >= Len(ins.lines)
    /\ ins' = [ins EXCEPT
                 !.tmp.data = @ \o AppendTail(ins.insert, ins.md_len, ins.mod_str),
                 !.pc = "rename"]
    /\ UNCHANGED <<file, log, scan, fs, run>>

\* An early return through `?` or `return Err(..)` after the scratch file
\* exists: opening, metadata, reading a line, a write; tmp is dropped
InsFails ==
    /\ ins.pc \in {"open", "metadata", "copy"}
    /\ ins' = [ins EXCEPT !.tmp = DropTmp(ins.tmp), !.pc = "done",
                          !.failed_at = ins.pc, !.result = "Err"]
    /\ UNCHANGED <<file, log, scan, fs, run>>

\* fs::rename(tmp.path(), path)?  -- rename(2) fails with EXDEV across devices
RenameOk(i) == i.mount[i.tmp.dir] = i.mount[i.target_dir]

InsRename ==
    /\ ins.pc = "rename"
    /\ RenameOk(ins)
    /\ ins' = [ins EXCEPT !.target = ins.tmp.data,
                          !.tmp = DropTmp([ins.tmp EXCEPT !.exists = FALSE]),
                          !.pc = "done", !.result = "Ok"]
    /\ UNCHANGED <<file, log, scan, fs, run>>

InsRenameFails ==
    /\ ins.pc = "rename"
    /\ ins' = [ins EXCEPT !.tmp = DropTmp(ins.tmp), !.pc = "done",
                          !.failed_at = "rename", !.result = "Err"]
    /\ UNCHANGED <<file, log, scan, fs, run>>

NextInsert ==
    \/ InsCreate \/ InsCreateFails \/ InsOpen \/ InsMetadata
    \/ InsCopy \/ InsAppend \/ InsFails \/ InsRename \/ InsRenameFails

SpecInsert == InitInsert /\ [][NextInsert]_vars

-----------------------------------------------------------------------------
(* mkmod::main on a filesystem *)

\* A path is the sequence of its components below the filesystem root; a
\* component is its stem and its extension (empty for none)
Name(stem, ext) == [stem |-> stem, ext |-> ext]
Join(path, comp) == Append(path, comp)
Parent(path) == IF path = <<>> THEN None ELSE Some(SubSeq(path, 1, Len(path) - 1))
FileName(path) == IF path = <<>> THEN None ELSE Some(path[Len(path)])

\* The text of a component (OsStr::to_str)
ToStr(comp) == IF comp.ext = <<>> THEN comp.stem ELSE comp.stem \o <<".">> \o comp.ext

\* Path::with_extension(ext) and Path::file_stem(), for a final component
WithExtension(path, ext) ==
    Join(SubSeq(path, 1, Len(path) - 1), Name(path[Len(path)].stem, ext))
FileStem(path) == path[Len(path)].stem

\* format!("{}_test.rs", path_str), for a path without extension
TestPath(path) ==
    Join(SubSeq(path, 1, Len(path) - 1),
         Name(path[Len(path)].stem \o <<"_", "t", "e", "s", "t">>, <<"r", "s">>))

RS == <<"r", "s">>
MainRs == Name(<<"m", "a", "i", "n">>, RS)
LibRs == Name(<<"l", "i", "b">>, RS)
ModRs == Name(<<"m", "o", "d">>, RS)
CargoToml == Name(<<"C", "a", "r", "g", "o">>, <<"t", "o", "m", "l">>)

\* file_template_with_test(name)
FileTemplateWithTest(name) ==
    <<LF, "#", "[", "c", "f", "g", "(", "t", "e", "s", "t", ")", "]", LF,
           "#", "[", "p", "a", "t", "h", " ", "=", " ", "\"", ".", "/">>
    \o name \o
    <<"_", "t", "e", "s", "t", ".", "r", "s", "\"", "]", LF, "m", "o", "d",
           " ">>
    \o name \o
    <<"_", "t", "e", "s", "t", ";", LF>>

Exists(f, path) == path \in DOMAIN f
IsDir(f, path) == Exists(f, path) /\ f[path].kind = "dir"
Put(f, path, entry) ==
    [q \in DOMAIN f \cup {path} |-> IF q = path THEN entry ELSE f[q]]
NewFile(data) == [kind |-> "file", data |-> data]
NewDir == [kind |-> "dir", data |-> <<>>]

\* The directory an entry is created in must exist
ParentIsDir(f, path) == Len(path) = 1 \/ IsDir(f, SubSeq(path, 1, Len(path) - 1))

\* File::create_new(&mod_path)
\* (CreateTruncating: File::create in its place)
CreateTruncating(f, path) ==
    IF ~ParentIsDir(f, path) THEN [res |-> "NotFound", fs |-> f]
    ELSE IF IsDir(f, path) THEN [res |-> "IsADirectory", fs |-> f]
    ELSE [res |-> "Ok", fs |-> Put(f, path, NewFile(<<>>))]
CreateNew(f, path) ==
    IF Exists(f, path) THEN [res |-> "AlreadyExists", fs |-> f]
    ELSE IF ~ParentIsDir(f, path) THEN [res |-> "NotFound", fs |-> f]
    ELSE [res |-> "Ok", fs |-> Put(f, path, NewFile(<<>>))]

\* File::create(test_path)
Create(f, path) ==
    IF ~ParentIsDir(f, path) THEN [res |-> "NotFound", fs |-> f]
    ELSE IF IsDir(f, path) THEN [res |-> "IsADirectory", fs |-> f]
    ELSE [res |-> "Ok", fs |-> Put(f, path, NewFile(<<>>))]

\* fs::create_dir(path)
CreateDir(f, path) ==
    IF Exists(f, path) THEN [res |-> "AlreadyExists", fs |-> f]
    ELSE IF ~ParentIsDir(f, path) THEN [res |-> "NotFound", fs |-> f]
    ELSE [res |-> "Ok", fs |-> Put(f, path, NewDir)]

\* make_mod_file(path, with_test) -> Result<PathBuf>
MakeModFile(f, path, with_test) ==
    IF FileName(path) = None
    THEN [res |-> "InvalidFilename", fs |-> f, path |-> path]
    ELSE
        LET name == ToStr(FileName(path)[1])
            mod_path == WithExtension(path, RS)
            made == CreateNew(f, mod_path)
        IN IF made.res # "Ok" THEN [res |-> made.res, fs |-> f, path |-> mod_path]
           ELSE IF ~with_test THEN [res |-> "Ok", fs |-> made.fs, path |-> mod_path]
           ELSE
               LET test == Create(made.fs, TestPath(path)) IN
               IF test.res # "Ok"
               THEN [res |-> test.res, fs |-> made.fs, path |-> mod_path]
               ELSE [res |-> "Ok",
                     fs |-> Put(test.fs, mod_path, NewFile(FileTemplateWithTest(name))),
                     path |-> mod_path]

\* make_mod_dir(path, with_test) -> Result<PathBuf>
MakeModDir(f, path, with_test) ==
    LET made == CreateDir(f, path) IN
    IF made.res # "Ok" THEN [res |-> made.res, fs |-> f, path |-> path]
    ELSE LET inner == MakeModFile(made.fs, Join(path, Name(<<"m", "o", "d">>, <<>>)), with_test)
         IN [res |-> inner.res, fs |-> inner.fs, path |-> path]

\* The choice of the entry file in super_path, given the module's parent
SuperFile(f, parent, g_parent, super_main) ==
    IF Exists(f, Join(g_parent, CargoToml))
    THEN IF super_main THEN Join(parent, MainRs)
         ELSE IF Exists(f, Join(parent, LibRs)) THEN Join(parent, LibRs)
         ELSE Join(parent, MainRs)
    ELSE Join(parent, ModRs)

\* super_path(path, super_main) -> Result<PathBuf>
SuperPath(f, path, super_main) ==
    IF ~Exists(f, path) THEN [res |-> "NotFound", path |-> path]
    ELSE IF Parent(path) = None THEN [res |-> "InvalidFilename", path |-> path]
    ELSE IF Parent(Parent(path)[1]) = None THEN [res |-> "InvalidFilename", path |-> path]
    ELSE
        LET parent == Parent(path)[1]
            g_parent == Parent(parent)[1]
            super_file == SuperFile(f, parent, g_parent, super_main)
        IN IF ~Exists(f, super_file) THEN [res |-> "InvalidInput", path |-> super_file]
           ELSE [res |-> "Ok", path |-> super_file]

\* add_module_to(mod_name, path, public); tmp_same_dev: whether the temporary
\* directory is on the device of the super file (else the rename fails)
AddModuleToFile(f, mod_name, path, public, tmp_same_dev) ==
    IF f[path].kind # "file" THEN [res |-> "IsADirectory", fs |-> f]
    ELSE
        LET insert == InsertPoint(FileInfo(f[path].data))
            post == Rewrite(f[path].data, insert, ModStr(mod_name, public))
        IN IF ~tmp_same_dev THEN [res |-> "CrossesDevices", fs |-> f]
           ELSE [res |-> "Ok", fs |-> Put(f, path, NewFile(post))]

\* add_to_super(path, super_main, public)
AddToSuper(f, path, super_main, public, tmp_same_dev) ==
    LET sup == SuperPath(f, path, super_main) IN
    IF sup.res # "Ok" THEN [res |-> sup.res, fs |-> f]
    ELSE AddModuleToFile(f, FileStem(path), sup.path, public, tmp_same_dev)

\* mkmod::main(path, dir, with_test, add_to_super, super_main, public)
Main(f, a) ==
    IF Exists(f, a.path) THEN [res |-> "AlreadyExists", fs |-> f]
    ELSE
        LET made == IF a.dir THEN MakeModDir(f, a.path, a.with_test)
                    ELSE MakeModFile(f, a.path, a.with_test)
        IN IF made.res # "Ok" THEN [res |-> made.res, fs |-> made.fs]
           ELSE IF ~a.add_to_super THEN [res |-> "Ok", fs |-> made.fs]
           ELSE AddToSuper(made.fs, made.path, a.super_main, a.public, a.tmp_same_dev)

Proj == <<Name(<<"p">>, <<>>)>>
Src == Join(Proj, Name(<<"s", "r", "c">>, <<>>))
Sub == Join(Src, Name(<<"s", "u", "b">>, <<>>))

\* Names of the module to create: an ordinary one, and the stem of an entry file
NewNames == { <<"f">>, <<"l", "i", "b">> }

\* Content of an entry file that exists at the start
EntryContents ==
    { <<>>, FileOf(<< <<"u", "s", "e", " ", "a", ";">>, <<"f", "n", " ", "f">> >>, <<LF>>, TRUE) }

\* What may occupy the place of the module src/f before the run
Occupants == { "none", "path_file", "path_dir", "path_rs", "path_test_rs" }

Occupied(f, occ) ==
    LET path == Join(Src, Name(<<"f">>, <<>>)) IN
    CASE occ = "none" -> f
      [] occ = "path_file" -> Put(f, path, NewFile(<<>>))
      [] occ = "path_dir" -> Put(f, path, NewDir)
      [] occ = "path_rs" -> Put(f, WithExtension(path, RS), NewFile(<<"f", "n", " ", "f", LF>>))
      [] occ = "path_test_rs" -> Put(f, TestPath(path), NewFile(<<"f", "n", " ", "f", LF>>))

Option(S) == { None } \cup { Some(x) : x \in S }

WithFile(f, path, content) ==
    IF content = None THEN f ELSE Put(f, path, NewFile(content[1]))

InitialFilesystems ==
    { Occupied(
        WithFile(WithFile(WithFile(WithFile(
            [q \in {Proj, Src, Sub} |-> NewDir],
            Join(Proj, CargoToml), cargo),
            Join(Src, MainRs), main_rs),
            Join(Src, LibRs), lib_rs),
            Join(Sub, ModRs), mod_rs),
        occ) :
      cargo \in Option({<<>>}), main_rs \in Option(EntryContents),
      lib_rs \in Option(EntryContents), mod_rs \in Option(EntryContents),
      occ \in Occupants }

InitMain ==
    /\ file = <<>>
    /\ log = <<>>
    /\ scan = IdleScan
    /\ ins = IdleIns
    /\ fs \in InitialFilesystems
    /\ run = IdleRun

\* One invocation of the command (a single-shot CLI)
RunMain(a) ==
    /\ run.pc = "idle"
    /\ LET out == Main(fs, a) IN
       /\ fs' = out.fs
       /\ run' = [pc |-> "done", args |-> a, fs0 |-> fs, result |-> out.res]
    /\ UNCHANGED <<file, log, scan, ins>>

NextMain ==
    \E d \in {Src, Sub}, n \in NewNames,
       dir \in BOOLEAN, with_test \in BOOLEAN, add_to_super \in BOOLEAN,
       super_main \in BOOLEAN, public \in BOOLEAN, tmp_same_dev \in BOOLEAN :
        RunMain([path |-> Join(d, Name(n, <<>>)), dir |-> dir, with_test |-> with_test,
                 add_to_super |-> add_to_super, super_main |-> super_main,
                 public |-> public, tmp_same_dev |-> tmp_same_dev])

SpecMain == InitMain /\ [][NextMain]_vars

-----------------------------------------------------------------------------
(* Reading the log of a registration *)

InsertAt(q, idx, x) == SubSeq(q, 1, idx) \o <<x>> \o SubSeq(q, idx + 1, Len(q))
RemoveAt(q, idx) == SubSeq(q, 1, idx) \o SubSeq(q, idx + 2, Len(q))

\* Zero-based index at which a call's declaration line is expected
Landing(e) ==
    IF e.insert = None \/ Len(e.pre) = 0 THEN Len(Lines(e.pre)) ELSE e.insert[1]

\* Number of leading lines of q, from position i on, that satisfy P
RECURSIVE CountBlank(_, _)
CountBlank(q, i) ==
    IF i <= Len(q) /\ IsBlank(q[i]) THEN 1 + CountBlank(q, i + 1) ELSE 0
RECURSIVE CountComment(_, _)
CountComment(q, i) ==
    IF i <= Len(q) /\ ReComment(q[i]) THEN 1 + CountComment(q, i + 1) ELSE 0
RECURSIVE CountPreamble(_, _)
CountPreamble(q, i) ==
    IF i <= Len(q) /\ IsPreambleLine(q[i]) THEN 1 + CountPreamble(q, i + 1) ELSE 0

HasPreambleLine(q) == \E i \in 1..Len(q) : IsPreambleLine(q[i])
\* One-based position of the first import/module line
FirstPreamble(q) == CHOOSE i \in 1..Len(q) :
    IsPreambleLine(q[i]) /\ \A j \in 1..(i - 1) : ~IsPreambleLine(q[j])
\* One-based position of the last line of the run that starts there
RunLast(q) == FirstPreamble(q) + CountPreamble(q, FirstPreamble(q)) - 1

\* The file has a run of import/module lines followed by other content
RunThenContent(q) == HasPreambleLine(q) /\ RunLast(q) < Len(q)
\* The file's preamble runs to end-of-file
RunToEof(q) == HasPreambleLine(q) /\ RunLast(q) = Len(q)

\* K leading blank lines, then N >= 1 comment lines
LeadBlank(q) == CountBlank(q, 1)
HeaderLen(q) == CountComment(q, LeadBlank(q) + 1)
\* ... followed by non-comment content
HeaderThenContent(q) == HeaderLen(q) >= 1 /\ LeadBlank(q) + HeaderLen(q) < Len(q)
\* ... running to end-of-file, in a file with no import/module line
HeaderToEof(q) ==
    /\ HeaderLen(q) >= 1
    /\ LeadBlank(q) + HeaderLen(q) = Len(q)
    /\ ~HasPreambleLine(q)

\* The lines of q as one more copy through lines()/writeln! leaves them
Copied(q) == [i \in 1..Len(q) |-> StripCR(q[i])]

-----------------------------------------------------------------------------
(* Claims on the registration.  The log only grows, so every entry is the
   newest one in the state its call produced: a formula about every call is
   stated on the newest entry, in every state. *)

Calls == IF log = <<>> THEN {} ELSE { Len(log) }
CallPairs == IF Len(log) < 2 THEN {} ELSE { Len(log) }

\* C1: after insert_mod_at_line succeeds the file consists of the original
\* lines, byte-identical and in order, plus exactly one declaration line at
\* the computed index (last when the point is None, only line when empty).
C1_RoundTrip ==
    \A k \in Calls :
        Lines(log[k].post) = InsertAt(Lines(log[k].pre), Landing(log[k]), log[k].mod_str)

\* C2: for a file with a run of import/module lines followed by other content,
\* file_info returns preamble_exists and preamble_end = index of the run's last
\* line, and the declaration is inserted at preamble_end + 1, between that line
\* and the content that follows it.
C2_PreambleEnd ==
    \A k \in Calls :
        LET e == log[k]
            old == Lines(e.pre)
            new == Lines(e.post)
        IN RunThenContent(old) =>
            LET j == RunLast(old) IN
            /\ e.info.preamble_exists
            /\ e.info.preamble_end = Some(j - 1)
            /\ e.insert = Some(j)
            /\ Len(new) = Len(old) + 1
            /\ new[j] = StripCR(old[j])
            /\ new[j + 1] = e.mod_str
            /\ new[j + 2] = StripCR(old[j + 1])

C2_Witness ==
    \E k \in 1..Len(log) :
        /\ RunThenContent(Lines(log[k].pre))
        /\ CountPreamble(Lines(log[k].pre), FirstPreamble(Lines(log[k].pre))) >= 2
        /\ log[k].info.header_comment_exists

\* C5 (as stated): for K leading blank lines, then N comment lines, then
\* non-comment content, header_comment_exists and header_comment_end = N - 1.
C5_HeaderEndIgnoringBlanks ==
    \A k \in Calls :
        LET old == Lines(log[k].pre) IN
        HeaderThenContent(old) =>
            /\ log[k].info.header_comment_exists
            /\ log[k].info.header_comment_end = Some(HeaderLen(old) - 1)

\* C5 (amended): for K leading blank lines, then N comment lines, then
\* non-comment content, header_comment_exists and header_comment_end is the
\* file index of the last comment line, K + N - 1.
C5_HeaderEnd ==
    \A k \in Calls :
        LET old == Lines(log[k].pre) IN
        HeaderThenContent(old) =>
            /\ log[k].info.header_comment_exists
            /\ log[k].info.header_comment_end =
                   Some(LeadBlank(old) + HeaderLen(old) - 1)

C5_Witness ==
    \E k \in 1..Len(log) :
        LET old == Lines(log[k].pre) IN
        /\ HeaderThenContent(old)
        /\ LeadBlank(old) >= 1
        /\ HeaderLen(old) >= 2

\* C6: when the preamble runs to end-of-file, or there is no preamble and the
\* header comment runs to end-of-file, the insertion point is None and the
\* declaration is the last line of the rewritten file, after all original lines.
C6_Append ==
    \A k \in Calls :
        LET e == log[k]
            old == Lines(e.pre)
        IN (RunToEof(old) \/ HeaderToEof(old)) =>
            /\ e.insert = None
            /\ Lines(e.post) = Append(Copied(old), e.mod_str)

C6_Witness ==
    /\ Len(log) >= 2
    /\ HeaderToEof(Lines(log[1].pre))
    /\ log[1].pre[Len(log[1].pre)] # LF
    /\ RunToEof(Lines(log[2].pre))

\* C10: of two successive registrations the second declaration ends up on the
\* line right after the first, and the original lines keep their order.
C10_Contiguous ==
    \A k \in CallPairs :
        LET a == log[k - 1]
            b == log[k]
            new == Lines(b.post)
        IN /\ Landing(b) = Landing(a) + 1
           /\ Len(new) = Len(Lines(a.pre)) + 2
           /\ new[Landing(a) + 1] = a.mod_str
           /\ new[Landing(b) + 1] = b.mod_str
           /\ RemoveAt(RemoveAt(new, Landing(b)), Landing(a)) = Copied(Copied(Lines(a.pre)))

C10_Witness ==
    /\ Len(log) >= 2
    /\ log[1].insert # None
    /\ log[1].insert # Some(0)
    /\ Landing(log[1]) < Len(Lines(log[1].pre))
    /\ log[1].mod_str # log[2].mod_str

-----------------------------------------------------------------------------
(* Claims on the line scan *)

\* C9: in every state of the scan, preamble_end is Some only if
\* preamble_exists, header_comment_end is Some only if header_comment_exists,
\* no l_num - 1 was computed at l_num = 0, and every Some(k) is the index of
\* a line already read: the last header-comment line, resp. the last line of
\* the preamble.
C9_EndMarkers ==
    scan.pc # "idle" =>
        LET s == scan.s IN
        /\ s.preamble_end # None => s.preamble_exists
        /\ s.header_comment_end # None => s.header_comment_exists
        /\ ~s.underflow
        /\ s.header_comment_end # None =>
              /\ s.header_comment_end[1] + 1 < scan.l_num
              /\ s.header_comment_end[1] + 1 = LeadBlank(scan.lines) + HeaderLen(scan.lines)
              /\ ReComment(scan.lines[s.header_comment_end[1] + 1])
        /\ s.preamble_end # None =>
              /\ s.preamble_end[1] + 1 < scan.l_num
              /\ s.preamble_end[1] + 1 = RunLast(scan.lines)
              /\ IsPreambleLine(scan.lines[s.preamble_end[1] + 1])

C9_Witness ==
    /\ scan.pc = "ok"
    /\ scan.s.header_comment_end = Some(0)
    /\ scan.s.preamble_end = Some(1)

-----------------------------------------------------------------------------
(* Claims on the rewrite *)

\* C3: if insert_mod_at_line fails, the super file is unchanged and no scratch
\* file remains; the super file is untouched before the rename; on every exit,
\* success or error, the scratch file has been renamed over the target or removed.
C3_FailureAtomic ==
    /\ (ins.pc \notin {"idle", "done"}) => ins.target = ins.file0
    /\ ins.pc = "done" =>
          /\ ~ins.tmp.exists
          /\ ins.result = "Err" => ins.target = ins.file0
          /\ ins.result = "Ok" => ins.target = ins.tmp.data

C3_Witness ==
    /\ ins.pc = "done"
    /\ ins.result = "Err"
    /\ ins.failed_at = "copy"
    /\ Len(ins.tmp.data) > 0

\* C4: the scratch file is created in the same filesystem namespace as the
\* target super file, so that the final replace is a same-namespace rename.
C4_SameNamespace ==
    (ins.pc # "idle" /\ ins.tmp.exists) =>
        ins.mount[ins.tmp.dir] = ins.mount[ins.target_dir]

\* The step-wise rewrite produces what Rewrite computes
InsertAgreesWithRewrite ==
    (ins.pc = "done" /\ ins.result = "Ok") =>
        ins.target = Rewrite(ins.file0, ins.insert, ins.mod_str)

-----------------------------------------------------------------------------
(* Claims on mkmod::main *)

\* The module file of a file module: <path>.rs
ModuleRs(a) == WithExtension(a.path, RS)

\* C7: when the path exists, or for a file module <path>.rs exists, main
\* returns AlreadyExists and changes nothing on the filesystem, whatever the flags.
C7_AlreadyExists ==
    (/\ run.pc = "done"
     /\ \/ Exists(run.fs0, run.args.path)
        \/ ~run.args.dir /\ Exists(run.fs0, ModuleRs(run.args))) =>
        /\ run.result = "AlreadyExists"
        /\ fs = run.fs0

C7_Witness ==
    /\ run.pc = "done"
    /\ ~run.args.dir /\ run.args.with_test /\ run.args.add_to_super
    /\ ~Exists(run.fs0, run.args.path)
    /\ Exists(run.fs0, ModuleRs(run.args))
    /\ Exists(run.fs0, Join(Src, LibRs))

\* The decision table of C8, read on the filesystem the run starts from
TableFile(f, a) ==
    LET parent == SubSeq(a.path, 1, Len(a.path) - 1)
        g_parent == SubSeq(parent, 1, Len(parent) - 1)
    IN IF Exists(f, Join(g_parent, CargoToml))
       THEN IF a.super_main THEN Join(parent, MainRs)
            ELSE IF Exists(f, Join(parent, LibRs)) THEN Join(parent, LibRs)
            ELSE Join(parent, MainRs)
       ELSE Join(parent, ModRs)

EntryFiles == { Join(Src, MainRs), Join(Src, LibRs), Join(Src, ModRs), Join(Sub, ModRs),
                Join(Sub, MainRs), Join(Sub, LibRs) }

Untouched(f0, f1, path) ==
    /\ Exists(f0, path) <=> Exists(f1, path)
    /\ Exists(f0, path) => f0[path] = f1[path]

\* C8: the super file is main.rs at the root with super_main, lib.rs if it
\* exists else main.rs at the root without, the parent's mod.rs elsewhere; a run
\* with add_to_super inserts the declaration into exactly that file and modifies
\* no other entry file; if that file does not exist the run fails and the file
\* is not created.
C8_SuperResolution ==
    (run.pc = "done" /\ run.args.add_to_super) =>
        LET a == run.args
            target == TableFile(run.fs0, a)
        IN /\ \A e \in EntryFiles \ {target} :
                 Exists(run.fs0, e) => (Exists(fs, e) /\ fs[e] = run.fs0[e])
           /\ ~Exists(run.fs0, target) => (run.result # "Ok" /\ ~Exists(fs, target))
           /\ (Exists(run.fs0, target) /\ run.result = "Ok") =>
                 fs[target].data =
                     Rewrite(run.fs0[target].data,
                             InsertPoint(FileInfo(run.fs0[target].data)),
                             ModStr(a.path[Len(a.path)].stem, a.public))
           /\ (Exists(run.fs0, target) /\ run.result # "Ok") => Untouched(run.fs0, fs, target)

====
